---- MODULE Spec2Model ----
(***************************************************************************)
(* video-morse-decode: the decoding pipeline of src/video-morse-decode.cpp *)
(* (brightness histogram, state segmentation, peak detection, thresholds,  *)
(* morse assembly, symbol decoding) as state machines.                     *)
(*                                                                         *)
(* Strings are sequences of one-character strings, so that find/replace    *)
(* work on positions as std::string does.  C++ vectors and arrays are      *)
(* functions over 0..n-1.                                                   *)
(***************************************************************************)
EXTENDS Integers, Sequences, FiniteSets, TLC

VARIABLES
    pc,                              \* position in run() / in the function under study
    start_frame,                     \* m_options.start_frame
    frame_index,                     \* run(): frame_index
    m_frames,                        \* std::vector<Frame>
    m_frame_luminance_histogram,     \* std::vector<unsigned>(256)
    m_mean_luminance,                \* int
    m_signals,                       \* std::vector<Signal>
    state, last_state, last_time,    \* processStateChanges(): locals
    fi,                              \* processStateChanges(): the loop's position in m_frames
    off_time_peaks, on_time_peaks,   \* processSignals(): locals
    off_thresholds, on_thresholds,
    morse, message,                  \* run(): locals
    json,                            \* what has been written to *m_json_stream
    ub,                              \* undefined behaviour met so far (set of names)
    vf, count, window_size, r        \* get_local_maximums(): arguments and result

vars == << pc, start_frame, frame_index, m_frames, m_frame_luminance_histogram,
           m_mean_luminance, m_signals, state, last_state, last_time, fi,
           off_time_peaks, on_time_peaks,
           off_thresholds, on_thresholds, morse, message, json, ub,
           vf, count, window_size, r >>

----------------------------------------------------------------------------
(* Bounds of the model.                                                    *)

MaxFrames == 4        \* frames fed to processFrame in a free run
MaxStart == 1         \* largest start_frame option
MaxKey == 4           \* largest duration of a drawn duration histogram
MaxFreq == 3          \* largest frequency of a drawn duration histogram
MaxCount == 3         \* largest number of turning points asked for
MaxOffPeak == 4       \* largest drawn OFF peak
MaxOnPeak == 2        \* largest drawn ON peak
MaxSignals == 2       \* longest drawn Signal list
MaxSymbols == 2       \* longest drawn token stream, in symbols

----------------------------------------------------------------------------
(* Small helpers.                                                          *)

Max(S) == CHOOSE x \in S : \A y \in S : y <= x

Min2(a, b) == IF a < b THEN a ELSE b

RECURSIVE Flatten(_)
Flatten(q) == IF q = << >> THEN << >> ELSE Head(q) \o Flatten(Tail(q))

\* all orders of the elements of the set I
RECURSIVE PermsOf(_)
PermsOf(I) ==
    IF I = {} THEN { << >> }
    ELSE UNION { { <<i>> \o p : p \in PermsOf(I \ {i}) } : i \in I }

----------------------------------------------------------------------------
(* Util::sign, Util::gaussian                                              *)

sign(x) == IF x > 0 THEN 1 ELSE IF x < 0 THEN -1 ELSE 0

\* gaussian(j, 1) = sqrt(1/pi) * e^(-j*j), in units of 1/GaussScale
GaussScale == 10000000

gaussian(j) ==
    CASE j = 0            -> 5641896
      [] j = 1 \/ j = -1  -> 2075537
      [] j = 2 \/ j = -2  -> 103335
      [] j = 3 \/ j = -3  -> 696
      [] OTHER            -> 0

----------------------------------------------------------------------------
(* Util::get_local_maximums                                                *)

\* "convert map to vector": s has vf.rbegin()->first + 1 entries, zero where
\* the map has no key
MapToVector(h) ==
    [k \in 0..Max(DOMAIN h) |-> IF k \in DOMAIN h THEN h[k] ELSE 0]

\* "gaussian filter": o[i] = (int) sum of s[i+j] * gaussian(j, 1), the sum
\* taken over the indexes i+j inside s; the conversion to int truncates
GaussianFilter(s, w) ==
    LET n == Cardinality(DOMAIN s)
        Term(i, j) == IF i + j >= 0 /\ i + j < n THEN s[i + j] * gaussian(j) ELSE 0
        RECURSIVE Acc(_, _)
        Acc(i, j) == IF j > w THEN 0 ELSE Term(i, j) + Acc(i, j + 1)
    IN  [i \in 0..(n - 1) |-> Acc(i, -w) \div GaussScale]

\* "find local maximums" and "last point rising?": the loop from i = 1 with
\* ld the previous sign; after the loop d is the last sign (0 if it never ran)
\* and i is o.size()
RECURSIVE ScanTurningPoints(_, _, _, _)
ScanTurningPoints(o, i, ld, tp) ==
    LET n == Cardinality(DOMAIN o) IN
    IF i < n
    THEN LET d == sign(o[i] - o[i - 1]) IN
         ScanTurningPoints(o, i + 1, d,
             IF i > 0 /\ (ld = 1 \/ ld = 0) /\ d = -1
             THEN Append(tp, <<i - 1, o[i - 1]>>) ELSE tp)
    ELSE IF ld > 0 THEN Append(tp, <<i - 1, o[i - 1]>>) ELSE tp

TurningPoints(o) == ScanTurningPoints(o, 1, 0, << >>)

\* std::sort with the comparator a.second > b.second: every order of tp in
\* which the second components do not increase (std::sort is not stable, so
\* equal frequencies may come out in any order)
SortedByFrequency(tp) ==
    { [k \in 1..Len(tp) |-> tp[p[k]]] : p \in
        { q \in PermsOf(1..Len(tp)) :
            \A a, b \in 1..Len(tp) : a < b => tp[q[a]][2] >= tp[q[b]][2] } }

\* a faulty FirstPoints: the loop forgets to count down
FirstPoints_Uncounted(sorted, n) == [k \in 1..Len(sorted) |-> sorted[k][1]]

\* "get n first points": while (count && tpi != tp.end())
FirstPoints(sorted, n) ==
    [k \in 1..(IF n >= 0 THEN Min2(n, Len(sorted)) ELSE Len(sorted)) |-> sorted[k][1]]

\* the results get_local_maximums(h, n, w) may return, h a non-empty map
get_local_maximums(h, n, w) ==
    { FirstPoints(srt, n) :
        srt \in SortedByFrequency(TurningPoints(GaussianFilter(MapToVector(h), w))) }

----------------------------------------------------------------------------
(* VideoMorseDecode::processSignals: its steps as operators.  Vectors of   *)
(* peaks and thresholds are 1-based sequences here: off_time_peaks[0] of   *)
(* the source is off_time_peaks[1] of the model.                           *)

OFF == 0
ON == 1

\* the duration -> frequency map of the signals in state st
\* ("off_hist[signal.duration]++")
DurationHistogram(signals, st) ==
    LET D == { signals[k].duration : k \in { x \in 1..Len(signals) : signals[x].state = st } }
    IN  [d \in D |-> Cardinality({ k \in 1..Len(signals) :
                                    signals[k].state = st /\ signals[k].duration = d })]

\* std::sort(std::begin(peaks), std::end(peaks))
RECURSIVE SortAscending(_)
SortAscending(q) ==
    IF q = << >> THEN << >>
    ELSE LET m == CHOOSE k \in 1..Len(q) : \A j \in 1..Len(q) : q[k] <= q[j]
         IN  <<q[m]>> \o SortAscending([k \in 1..(Len(q) - 1) |-> IF k < m THEN q[k] ELSE q[k + 1]])

\* a faulty OffThresholds: the second cut point taken from the wrong pair
OffThresholds_WrongPair(p) == << (p[1] + p[2]) \div 2, (p[1] + p[3]) \div 2 >>

\* off_thresholds[0] = (off_time_peaks[0] + off_time_peaks[1]) / 2;
\* off_thresholds[1] = (off_time_peaks[1] + off_time_peaks[2]) / 2;
OffThresholds(p) == << (p[1] + p[2]) \div 2, (p[2] + p[3]) \div 2 >>

\* on_thresholds[0] = (on_time_peaks[0] + on_time_peaks[1]) / 2;
OnThresholds(p) == << (p[1] + p[2]) \div 2 >>

\* a faulty SignalToken: the boundary duration put in the lower bucket
SignalToken_LowerBucket(signal, offT, onT) ==
    IF signal.state = 0
    THEN IF signal.duration <= offT[1] THEN << >>
         ELSE IF signal.duration > offT[1] /\ signal.duration <= offT[2] THEN <<" ">>
         ELSE IF signal.duration > offT[2] THEN <<" ", "|", " ">>
         ELSE << >>
    ELSE IF signal.duration <= onT[1] THEN <<".">>
         ELSE IF signal.duration > onT[1] THEN <<"-">>
         ELSE << >>

\* what the loop over m_signals appends to morse for one signal
SignalToken(signal, offT, onT) ==
    IF signal.state = 0
    THEN IF signal.duration < offT[1] THEN << >>
         ELSE IF signal.duration >= offT[1] /\ signal.duration < offT[2] THEN <<" ">>
         ELSE IF signal.duration >= offT[2] THEN <<" ", "|", " ">>
         ELSE << >>
    ELSE IF signal.duration < onT[1] THEN <<".">>
         ELSE IF signal.duration >= onT[1] THEN <<"-">>
         ELSE << >>

\* the morse string after the loop over m_signals
AssembleMorse(signals, offT, onT) ==
    Flatten([k \in 1..Len(signals) |-> SignalToken(signals[k], offT, onT)])

----------------------------------------------------------------------------
(* Util::replace, Util::replace_all, Util::decodeMorse                     *)

\* std::string::find: the first position (from 0) where from occurs in input,
\* npos if none
npos == -1

find(input, from) ==
    LET P == { i \in 0..(Len(input) - Len(from)) :
                 SubSeq(input, i + 1, i + Len(from)) = from }
    IN  IF P = {} THEN npos ELSE CHOOSE i \in P : \A j \in P : i <= j

\* input.replace(start_pos, from.length(), to)
replace_at(input, start_pos, n, to) ==
    SubSeq(input, 1, start_pos) \o to \o SubSeq(input, start_pos + n + 1, Len(input))

\* replace_all: while (replace(out, from, to));
RECURSIVE replace_all(_, _, _)
replace_all(input, from, to) ==
    LET start_pos == find(input, from) IN
    IF start_pos = npos THEN input
    ELSE replace_all(replace_at(input, start_pos, Len(from), to), from, to)

morse_symbols == <<
       [pattern |-> <<".", "-">>,                        string |-> <<"A">>],
       [pattern |-> <<"-", ".", ".", ".">>,              string |-> <<"B">>],
       [pattern |-> <<"-", ".", "-", ".">>,              string |-> <<"C">>],
       [pattern |-> <<"-", ".", ".">>,                   string |-> <<"D">>],
       [pattern |-> <<".">>,                             string |-> <<"E">>],
       [pattern |-> <<".", ".", "-", ".">>,              string |-> <<"F">>],
       [pattern |-> <<"-", "-", ".">>,                   string |-> <<"G">>],
       [pattern |-> <<".", ".", ".", ".">>,              string |-> <<"H">>],
       [pattern |-> <<".", ".">>,                        string |-> <<"I">>],
       [pattern |-> <<".", "-", "-", "-">>,              string |-> <<"J">>],
       [pattern |-> <<"-", ".", "-">>,                   string |-> <<"K">>],
       [pattern |-> <<".", "-", ".", ".">>,              string |-> <<"L">>],
       [pattern |-> <<"-", "-">>,                        string |-> <<"M">>],
       [pattern |-> <<"-", ".">>,                        string |-> <<"N">>],
       [pattern |-> <<"-", "-", "-">>,                   string |-> <<"O">>],
       [pattern |-> <<".", "-", "-", ".">>,              string |-> <<"P">>],
       [pattern |-> <<"-", "-", ".", "-">>,              string |-> <<"Q">>],
       [pattern |-> <<".", "-", ".">>,                   string |-> <<"R">>],
       [pattern |-> <<".", ".", ".">>,                   string |-> <<"S">>],
       [pattern |-> <<"-">>,                             string |-> <<"T">>],
       [pattern |-> <<".", ".", "-">>,                   string |-> <<"U">>],
       [pattern |-> <<".", ".", ".", "-">>,              string |-> <<"V">>],
       [pattern |-> <<".", "-", "-">>,                   string |-> <<"W">>],
       [pattern |-> <<"-", ".", ".", "-">>,              string |-> <<"X">>],
       [pattern |-> <<"-", ".", "-", "-">>,              string |-> <<"Y">>],
       [pattern |-> <<"-", "-", ".", ".">>,              string |-> <<"Z">>],
       [pattern |-> <<"-", "-", "-", "-", "-">>,         string |-> <<"0">>],
       [pattern |-> <<".", "-", "-", "-", "-">>,         string |-> <<"1">>],
       [pattern |-> <<".", ".", "-", "-", "-">>,         string |-> <<"2">>],
       [pattern |-> <<".", ".", ".", "-", "-">>,         string |-> <<"3">>],
       [pattern |-> <<".", ".", ".", ".", "-">>,         string |-> <<"4">>],
       [pattern |-> <<".", ".", ".", ".", ".">>,         string |-> <<"5">>],
       [pattern |-> <<"-", ".", ".", ".", ".">>,         string |-> <<"6">>],
       [pattern |-> <<"-", "-", ".", ".", ".">>,         string |-> <<"7">>],
       [pattern |-> <<"-", "-", "-", ".", ".">>,         string |-> <<"8">>],
       [pattern |-> <<"-", "-", "-", "-", ".">>,         string |-> <<"9">>],
       [pattern |-> <<"-", "-", "-", ".", ".", ".">>,    string |-> <<":">>],
       [pattern |-> <<"-", ".", ".", ".", ".", "-">>,    string |-> <<"-">>],
       [pattern |-> <<".", "-", ".", "-", ".", "-">>,    string |-> <<".">>] >>

\* one pass of the loop over morse_symbols: from = " " + pattern + " ",
\* to = " " + string + " ", out = replace_all(out, from, to)
replace_symbol(out, m) ==
    replace_all(out, <<" ">> \o morse_symbols[m].pattern \o <<" ">>,
                     <<" ">> \o morse_symbols[m].string \o <<" ">>)

\* the passes for the entries lo..hi of the table, in table order (the range
\* is halved, and the left half's result is looked at before it is passed on,
\* only to keep the evaluation shallow)
RECURSIVE replace_symbols(_, _, _)
replace_symbols(out, lo, hi) ==
    IF lo = hi THEN replace_symbol(out, lo)
    ELSE LET mid == (lo + hi) \div 2
             left == replace_symbols(out, lo, mid)
         IN  IF Len(left) >= 0 THEN replace_symbols(left, mid + 1, hi) ELSE left

\* a faulty decodeMorse: the word-separator marker is dropped, not turned
\* into a space
decodeMorse_DropsMarker(in) ==
    replace_all(replace_all(replace_symbols(in, 1, Len(morse_symbols)), <<" ">>, << >>), <<"|">>, << >>)

decodeMorse(in) ==
    replace_all(replace_all(replace_symbols(in, 1, Len(morse_symbols)), <<" ">>, << >>), <<"|">>, <<" ">>)

----------------------------------------------------------------------------
(* The documented example of get_local_maximums (the comment above it).    *)

DocumentedHistogram ==
    (0 :> 1) @@ (5 :> 17) @@ (8 :> 116) @@ (9 :> 18) @@ (10 :> 2) @@
    (19 :> 1) @@ (20 :> 9) @@ (21 :> 12) @@ (24 :> 5) @@ (46 :> 1) @@
    (49 :> 6) @@ (51 :> 56) @@ (52 :> 6) @@ (53 :> 1)

\* the duration -> frequency maps with keys up to MaxKey, frequencies up to MaxFreq
Histograms ==
    { [k \in { x \in 0..MaxKey : f[x] > 0 } |-> f[k]] :
        f \in { g \in [0..MaxKey -> 0..MaxFreq] : \E x \in 0..MaxKey : g[x] > 0 } }

\* gaussian_window_size of processSignals, and the window of the documented example
WindowSizes == {1, 3}

\* values of the variables a specification does not use
IdleRun ==
    /\ start_frame = 0 /\ frame_index = 0 /\ m_frames = << >>
    /\ m_frame_luminance_histogram = << >> /\ m_mean_luminance = 0
    /\ json = << >> /\ ub = {}
    /\ state = 0 /\ last_state = 0 /\ last_time = 0 /\ fi = 1

IdleSignals ==
    /\ m_signals = << >> /\ off_time_peaks = << >> /\ on_time_peaks = << >>
    /\ off_thresholds = << >> /\ on_thresholds = << >>

IdleText == morse = << >> /\ message = << >>

IdlePeaks == vf = << >> /\ count = 0 /\ window_size = 0 /\ r = << >>

runVars == << start_frame, frame_index, m_frames, m_frame_luminance_histogram,
              m_mean_luminance, json, ub, state, last_state, last_time, fi >>
signalVars == << m_signals, off_time_peaks, on_time_peaks, off_thresholds, on_thresholds >>
textVars == << morse, message >>
peakVars == << vf, count, window_size, r >>

----------------------------------------------------------------------------
(* SpecPeaks: get_local_maximums applied to drawn histograms.              *)

InitPeaks ==
    /\ pc = "get_local_maximums"
    /\ vf \in Histograms \cup {DocumentedHistogram}
    /\ count \in 0..MaxCount
    /\ window_size \in WindowSizes
    /\ r = << >>
    /\ IdleRun /\ IdleSignals /\ IdleText

GetLocalMaximums ==
    /\ pc = "get_local_maximums"
    /\ r' \in get_local_maximums(vf, count, window_size)
    /\ pc' = "returned"
    /\ UNCHANGED << runVars, signalVars, textVars, vf, count, window_size >>

NextPeaks == GetLocalMaximums

SpecPeaks == InitPeaks /\ [][NextPeaks]_vars

\* the smoothed array of the call under study
Smoothed == GaussianFilter(MapToVector(vf), window_size)

\* the candidate peaks as the claim defines them: i-1 where the first
\* difference is negative at i and was not negative before (there is no
\* difference before i = 1), plus the last index when the last difference is
\* positive
Candidates ==
    LET o == Smoothed
        n == Cardinality(DOMAIN o)
    IN  { i - 1 : i \in { x \in 1..(n - 1) :
                            o[x] < o[x - 1] /\ (x = 1 \/ o[x - 1] >= o[x - 2]) } }
        \cup (IF n >= 2 /\ o[n - 1] > o[n - 2] THEN {n - 1} ELSE {})

\* C10: get_local_maximums returns exactly min(count, number of candidates)
\* values, all of them candidates, pairwise distinct, in non-increasing order
\* of smoothed magnitude, and no candidate left out is larger than one returned.
C10_PeakDetectorContract ==
    pc = "returned" =>
        /\ Len(r) = Min2(count, Cardinality(Candidates))
        /\ \A k \in 1..Len(r) : r[k] \in Candidates
        /\ \A a, b \in 1..Len(r) : a < b =>
                r[a] # r[b] /\ Smoothed[r[a]] >= Smoothed[r[b]]
        /\ \A c \in Candidates \ { r[k] : k \in 1..Len(r) } :
                \A k \in 1..Len(r) : Smoothed[r[k]] >= Smoothed[c]

\* a call that found more candidates than asked for, one of them the rising tail
C10_Witness ==
    /\ pc = "returned"
    /\ count = 2 /\ Len(r) = 2
    /\ Cardinality(Candidates) = 3
    /\ Max(DOMAIN vf) \in Candidates

\* C9: for the documented histogram, count 3 and window size 1, the result
\* is [8, 51, 21].
C9_DocumentedExample ==
    (pc = "returned" /\ vf = DocumentedHistogram /\ count = 3 /\ window_size = 1)
        => r = <<8, 51, 21>>

----------------------------------------------------------------------------
(* SpecThresholds: processSignals from the point where both peak lists     *)
(* hold the peaks it asked for (3 OFF, 2 ON, distinct, in the order of     *)
(* their frequency), over drawn Signal lists.                              *)

\* sequences of n distinct values of S
RECURSIVE DistinctSeqs(_, _)
DistinctSeqs(S, n) ==
    IF n = 0 THEN { << >> }
    ELSE UNION { { <<x>> \o q : q \in DistinctSeqs(S \ {x}, n - 1) } : x \in S }

\* the Signal lists processStateChanges can leave: states alternate from OFF;
\* only the first duration can be 0
RECURSIVE SignalLists(_)
SignalLists(n) ==
    IF n = 0 THEN { << >> }
    ELSE LET shorter == SignalLists(n - 1) IN
         shorter \cup
         { Append(q, [state |-> (n - 1) % 2, duration |-> d]) :
             q \in { x \in shorter : Len(x) = n - 1 },
             d \in (IF n = 1 THEN 0 ELSE 1)..MaxOffPeak }

InitThresholds ==
    /\ pc = "thresholds"
    /\ m_signals \in SignalLists(MaxSignals)
    /\ off_time_peaks \in DistinctSeqs(0..MaxOffPeak, 3)
    /\ on_time_peaks \in DistinctSeqs(0..MaxOnPeak, 2)
    /\ off_thresholds = << >> /\ on_thresholds = << >>
    /\ IdleRun /\ IdleText /\ IdlePeaks

\* lines 409-419: sort the peaks, take the midpoints
ComputeThresholds ==
    /\ pc = "thresholds"
    /\ off_time_peaks' = SortAscending(off_time_peaks)
    /\ off_thresholds' = OffThresholds(off_time_peaks')
    /\ on_time_peaks' = SortAscending(on_time_peaks)
    /\ on_thresholds' = OnThresholds(on_time_peaks')
    /\ pc' = "assemble"
    /\ UNCHANGED << runVars, textVars, peakVars, m_signals >>

\* lines 421-438: the loop over m_signals
Assemble ==
    /\ pc = "assemble"
    /\ morse' = AssembleMorse(m_signals, off_thresholds, on_thresholds)
    /\ pc' = "assembled"
    /\ UNCHANGED << runVars, signalVars, peakVars, message >>

NextThresholds == ComputeThresholds \/ Assemble

SpecThresholds == InitThresholds /\ [][NextThresholds]_vars

\* C7: three distinct OFF peaks in ascending order give the truncating
\* midpoints as thresholds, the first strictly below the second.
C7_ThresholdsOrdered ==
    (pc \in {"assemble", "assembled"}
        /\ off_time_peaks[1] < off_time_peaks[2] /\ off_time_peaks[2] < off_time_peaks[3])
    =>  /\ off_thresholds[1] = (off_time_peaks[1] + off_time_peaks[2]) \div 2
        /\ off_thresholds[2] = (off_time_peaks[2] + off_time_peaks[3]) \div 2
        /\ off_thresholds[1] < off_thresholds[2]

\* adjacent peaks, both sums odd: the midpoints truncate and still differ
C7_Witness ==
    /\ pc = "assemble"
    /\ off_time_peaks = <<0, 1, 2>>
    /\ off_thresholds = <<0, 1>>

\* the token the claim gives a signal: the one token that satisfies all five
\* bucket rules
BucketToken(signal, offT, onT) ==
    CHOOSE tok \in { << >>, <<" ">>, <<" ", "|", " ">>, <<".">>, <<"-">> } :
        /\ (signal.state = OFF /\ signal.duration < offT[1]) => tok = << >>
        /\ (signal.state = OFF /\ offT[1] <= signal.duration /\ signal.duration < offT[2])
                => tok = <<" ">>
        /\ (signal.state = OFF /\ signal.duration >= offT[2]) => tok = <<" ", "|", " ">>
        /\ (signal.state = ON /\ signal.duration < onT[1]) => tok = <<".">>
        /\ (signal.state = ON /\ signal.duration >= onT[1]) => tok = <<"-">>

----------------------------------------------------------------------------
(* SpecDecode: decodeMorse applied to drawn token streams.                 *)

Patterns == { morse_symbols[m].pattern : m \in 1..Len(morse_symbols) }

\* the patterns a stream's third and later symbols are drawn from: the
\* one-element patterns, and those whose character is itself '-' or '.'
ProbePatterns == { <<".">>, <<"-">>, <<"-", ".", ".", ".", ".", "-">>,
                   <<".", "-", ".", "-", ".", "-">> }

\* the token streams of n symbols or fewer without their closing space:
\* " " pattern, then " " or " | " and a pattern, and so on; the first two
\* symbols range over the whole table
RECURSIVE OpenStreams(_)
OpenStreams(n) ==
    IF n = 1 THEN { <<" ">> \o p : p \in Patterns }
    ELSE LET shorter == OpenStreams(n - 1) IN
         shorter \cup
         { q \o sep \o p : q \in shorter, sep \in { <<" ">>, <<" ", "|", " ">> },
                            p \in (IF n = 2 THEN Patterns ELSE ProbePatterns) }

TokenStreams == { q \o <<" ">> : q \in OpenStreams(MaxSymbols) }

InitDecode ==
    /\ pc = "decodeMorse"
    /\ morse \in TokenStreams
    /\ message = << >>
    /\ IdleRun /\ IdleSignals /\ IdlePeaks

DecodeMorse ==
    /\ pc = "decodeMorse"
    /\ message' = decodeMorse(morse)
    /\ pc' = "decoded"
    /\ UNCHANGED << runVars, signalVars, peakVars, morse >>

NextDecode == DecodeMorse

SpecDecode == InitDecode /\ [][NextDecode]_vars

\* the tokens of a stream: the maximal runs of characters other than space
RECURSIVE Tokens(_, _)
Tokens(q, cur) ==
    IF q = << >> THEN (IF cur = << >> THEN << >> ELSE <<cur>>)
    ELSE IF Head(q) = " "
         THEN (IF cur = << >> THEN << >> ELSE <<cur>>) \o Tokens(Tail(q), << >>)
         ELSE Tokens(Tail(q), Append(cur, Head(q)))

\* the character of a token: a space for the word-separator marker, else the
\* table character of the pattern
TokenCharacter(tok) ==
    IF tok = <<"|">> THEN <<" ">>
    ELSE morse_symbols[CHOOSE m \in 1..Len(morse_symbols) :
                           morse_symbols[m].pattern = tok].string

\* C8: decodeMorse returns the table characters of the stream's patterns in
\* order, the space delimiters removed and each word-separator marker turned
\* into one space.
C8_DecodesSymbols ==
    pc = "decoded" =>
        LET toks == Tokens(morse, << >>) IN
        /\ message = Flatten([k \in 1..Len(toks) |-> TokenCharacter(toks[k])])
        /\ morse = <<" ", ".", "-", ".", " ">> => message = <<"R">>
        /\ morse = <<" ", "-", "-", ".", ".", " ">> => message = <<"Z">>

\* " .-. " decoded to "R", " --.. " to "Z", and the two-word stream
\* " ... | -....- " to "S -"
C8_WitnessR == pc = "decoded" /\ morse = <<" ", ".", "-", ".", " ">> /\ message = <<"R">>

C8_WitnessZ == pc = "decoded" /\ morse = <<" ", "-", "-", ".", ".", " ">> /\ message = <<"Z">>

C8_Witness ==
    /\ pc = "decoded"
    /\ morse = <<" ", ".", ".", ".", " ", "|", " ", "-", ".", ".", ".", ".", "-", " ">>
    /\ message = <<"S", " ", "-">>

----------------------------------------------------------------------------
(* Spec: VideoMorseDecode::run from the frame loop to the end of the       *)
(* report.  The video decoder and the pixel average of processFrame are    *)
(* outside the model: a frame arrives with its average luminance t.        *)
(* end_frame is -1 (no last frame).                                        *)

\* the luminances a frame of a free run can have
Luminances == {0, 128, 255}

\* values an out-of-range element read, or a division by zero that does not
\* trap, can yield
GarbageValues == {0, 100}

\* the frames of a video whose light is on and off for the given numbers of
\* frames in turn, on first: frame k-1 at 255 or 0
FramesOfRuns(runs) ==
    LET lit == Flatten([k \in 1..Len(runs) |-> [j \in 1..runs[k] |-> k % 2]])
    IN  [k \in 1..Len(lit) |->
            [time |-> k - 1, luminance |-> IF lit[k] = 1 THEN 255 ELSE 0]]

\* the SOS video: dots of 3 frames, dashes of 9, gaps of 2 inside a character,
\* 6 between characters, 20 at the end
SOSFrames ==
    FramesOfRuns(<<3, 2, 3, 2, 3, 6, 9, 2, 9, 2, 9, 6, 3, 2, 3, 2, 3, 20>>)

\* a video of "AA AA A": dots of 1 frame, dashes of 4, gaps of 1, 3 and 7, and
\* one more frame of light at the end
LetterAFrames ==
    FramesOfRuns(<<1, 1, 4, 3, 1, 1, 4, 7, 1, 1, 4, 3, 1, 1, 4, 7, 1, 1, 4, 1>>)

\* m_frame_luminance_histogram after processFrame took the frames
HistogramOf(frames) ==
    [n \in 0..255 |-> Cardinality({ k \in 1..Len(frames) : frames[k].luminance = n })]

Init ==
    /\ pc = "read_frames"
    /\ \/ /\ start_frame \in 0..MaxStart
          /\ m_frames = << >>
          /\ frame_index = 0
       \/ /\ start_frame = 0
          /\ m_frames \in {SOSFrames, LetterAFrames}
          /\ frame_index = Len(m_frames)
    /\ m_frame_luminance_histogram = HistogramOf(m_frames)
    /\ m_mean_luminance = 0
    /\ state = 0 /\ last_state = 0 /\ last_time = 0 /\ fi = 1
    /\ json = << >> /\ ub = {}
    /\ IdleSignals /\ IdleText /\ IdlePeaks

\* run(): a decoded frame; processFrame(frame_rgb, width, height, frame_index);
\* frame_index++
ProcessFrame ==
    /\ pc = "read_frames"
    /\ frame_index < start_frame + MaxFrames
    /\ \E t \in Luminances :
         IF start_frame # -1 /\ frame_index < start_frame
         THEN UNCHANGED << m_frames, m_frame_luminance_histogram >>
         ELSE /\ m_frame_luminance_histogram' =
                    [m_frame_luminance_histogram EXCEPT ![t] = @ + 1]
              /\ m_frames' = Append(m_frames, [time |-> frame_index, luminance |-> t])
    /\ frame_index' = frame_index + 1
    /\ UNCHANGED << pc, start_frame, m_mean_luminance, json, ub, state, last_state,
                    last_time, fi, signalVars, textVars, peakVars >>

\* run(): av_read_frame reports the end; *m_json_stream << "{\n"
EndOfVideo ==
    /\ pc = "read_frames"
    /\ json' = Append(json, "{")
    /\ pc' = "calculateHistogram"
    /\ UNCHANGED << start_frame, frame_index, m_frames, m_frame_luminance_histogram,
                    m_mean_luminance, ub, state, last_state, last_time, fi,
                    signalVars, textVars, peakVars >>

\* the two loops of calculateHistogram over n = i * 16 + j: the sum of
\* weight(n) * hist[n]
RECURSIVE HistogramRow(_, _, _, _)
HistogramRow(hist, i, j, weighted) ==
    IF j = 16 THEN 0
    ELSE (IF weighted THEN (i * 16 + j) * hist[i * 16 + j] ELSE hist[i * 16 + j])
         + HistogramRow(hist, i, j + 1, weighted)

RECURSIVE HistogramTotal(_, _, _)
HistogramTotal(hist, i, weighted) ==
    IF i = 16 THEN 0
    ELSE HistogramRow(hist, i, 0, weighted) + HistogramTotal(hist, i + 1, weighted)

\* calculateHistogram with sum > 0: m_mean_luminance /= sum, then the two
\* report fields
CalculateHistogram ==
    /\ pc = "calculateHistogram"
    /\ HistogramTotal(m_frame_luminance_histogram, 0, FALSE) > 0
    /\ m_mean_luminance' = HistogramTotal(m_frame_luminance_histogram, 0, TRUE)
                              \div HistogramTotal(m_frame_luminance_histogram, 0, FALSE)
    /\ json' = json \o <<"frame_hist", "frame_hist_mean">>
    /\ pc' = "processStateChanges"
    /\ UNCHANGED << start_frame, frame_index, m_frames, m_frame_luminance_histogram, ub,
                    state, last_state, last_time, fi, signalVars, textVars, peakVars >>

\* calculateHistogram with sum = 0: the division by zero is undefined; where
\* it does not trap the quotient is any value and the run goes on
CalculateHistogramNoFrames ==
    /\ pc = "calculateHistogram"
    /\ HistogramTotal(m_frame_luminance_histogram, 0, FALSE) = 0
    /\ ub' = ub \cup {"division by zero"}
    /\ \E q \in GarbageValues :
         /\ m_mean_luminance' = q
         /\ json' = json \o <<"frame_hist", "frame_hist_mean">>
         /\ pc' = "processStateChanges"
    /\ UNCHANGED << start_frame, frame_index, m_frames, m_frame_luminance_histogram,
                    state, last_state, last_time, fi, signalVars, textVars, peakVars >>

\* calculateHistogram with sum = 0, where the division traps (SIGFPE)
CalculateHistogramTrap ==
    /\ pc = "calculateHistogram"
    /\ HistogramTotal(m_frame_luminance_histogram, 0, FALSE) = 0
    /\ ub' = ub \cup {"division by zero"}
    /\ pc' = "crashed"
    /\ UNCHANGED << start_frame, frame_index, m_frames, m_frame_luminance_histogram,
                    m_mean_luminance, json, state, last_state, last_time, fi,
                    signalVars, textVars, peakVars >>

\* the state of a frame: 0 below the mean, 1 at or above it
StateOf(frame, mean) == IF frame.luminance < mean THEN 0 ELSE 1

\* processStateChanges: one pass of the loop over m_frames
SegmentFrame ==
    /\ pc = "processStateChanges"
    /\ fi <= Len(m_frames)
    /\ LET frame == m_frames[fi]
           st == StateOf(frame, m_mean_luminance)
       IN  /\ state' = st
           /\ IF st # last_state
              THEN /\ m_signals' = Append(m_signals,
                        [state |-> last_state, duration |-> frame.time - last_time])
                   /\ last_time' = frame.time
              ELSE UNCHANGED << m_signals, last_time >>
           /\ last_state' = st
    /\ fi' = fi + 1
    /\ UNCHANGED << pc, start_frame, frame_index, m_frames, m_frame_luminance_histogram,
                    m_mean_luminance, json, ub, off_time_peaks, on_time_peaks,
                    off_thresholds, on_thresholds, textVars, peakVars >>

\* processStateChanges: the loop ends, the function returns
SegmentDone ==
    /\ pc = "processStateChanges"
    /\ fi > Len(m_frames)
    /\ pc' = "processSignals"
    /\ UNCHANGED << start_frame, frame_index, m_frames, m_frame_luminance_histogram,
                    m_mean_luminance, json, ub, state, last_state, last_time, fi,
                    signalVars, textVars, peakVars >>

\* get_local_maximums(hist, n, gaussian_window_size) as processSignals calls
\* it.  On an empty map vf.rbegin()->first is undefined: the vector s gets
\* some size and only zeros, so no turning point is found (or the run dies).
gaussian_window_size == 3

PeaksFound(hist, n) ==
    IF DOMAIN hist = {} THEN { << >> }
    ELSE get_local_maximums(hist, n, gaussian_window_size)

\* a vector of k sorted peaks read at indexes 0..n-1: the elements past its
\* end are whatever the memory holds
ReadPeaks(peaks, n) ==
    { [k \in 1..n |-> IF k <= Len(peaks) THEN peaks[k] ELSE g[k]] :
        g \in [1..n -> GarbageValues] }

\* the undefined behaviour processSignals meets on these signals and peaks
SignalsUB(offHist, onHist, offPeaks, onPeaks) ==
    (IF DOMAIN offHist = {} \/ DOMAIN onHist = {} THEN {"rbegin of empty map"} ELSE {})
    \cup (IF Len(offPeaks) < 3 \/ Len(onPeaks) < 2 THEN {"peak read out of range"} ELSE {})

\* processSignals returning, and run() writing the morse field
ProcessSignals ==
    /\ pc = "processSignals"
    /\ LET off_hist == DurationHistogram(m_signals, OFF)
           on_hist == DurationHistogram(m_signals, ON)
       IN  \E offFound \in PeaksFound(off_hist, 3), onFound \in PeaksFound(on_hist, 2) :
             /\ off_time_peaks' = SortAscending(offFound)
             /\ on_time_peaks' = SortAscending(onFound)
             /\ ub' = ub \cup SignalsUB(off_hist, on_hist, offFound, onFound)
             /\ \E offRead \in ReadPeaks(off_time_peaks', 3),
                   onRead \in ReadPeaks(on_time_peaks', 2) :
                  /\ off_thresholds' = OffThresholds(offRead)
                  /\ on_thresholds' = OnThresholds(onRead)
             /\ morse' = AssembleMorse(m_signals, off_thresholds', on_thresholds')
    /\ json' = json \o <<"hist_off", "hist_on", "off_time_peaks", "off_thresholds",
                         "on_time_peaks", "on_thresholds", "morse">>
    /\ pc' = "decodeMorse"
    /\ UNCHANGED << start_frame, frame_index, m_frames, m_frame_luminance_histogram,
                    m_mean_luminance, state, last_state, last_time, fi, m_signals,
                    message, peakVars >>

\* processSignals dying on the undefined behaviour it meets
ProcessSignalsCrash ==
    /\ pc = "processSignals"
    /\ LET off_hist == DurationHistogram(m_signals, OFF)
           on_hist == DurationHistogram(m_signals, ON)
       IN  \E offFound \in PeaksFound(off_hist, 3), onFound \in PeaksFound(on_hist, 2) :
             /\ SignalsUB(off_hist, on_hist, offFound, onFound) # {}
             /\ off_time_peaks' = SortAscending(offFound)
             /\ on_time_peaks' = SortAscending(onFound)
             /\ ub' = ub \cup SignalsUB(off_hist, on_hist, offFound, onFound)
    /\ pc' = "crashed"
    /\ UNCHANGED << start_frame, frame_index, m_frames, m_frame_luminance_histogram,
                    m_mean_luminance, json, state, last_state, last_time, fi, m_signals,
                    off_thresholds, on_thresholds, textVars, peakVars >>

\* run(): message = decodeMorse(morse), the message field and the closing brace
RunDecodeMorse ==
    /\ pc = "decodeMorse"
    /\ message' = decodeMorse(morse)
    /\ json' = json \o <<"message", "}">>
    /\ pc' = "done"
    /\ UNCHANGED << start_frame, frame_index, m_frames, m_frame_luminance_histogram,
                    m_mean_luminance, ub, state, last_state, last_time, fi,
                    signalVars, morse, peakVars >>

Next ==
    \/ ProcessFrame
    \/ EndOfVideo
    \/ CalculateHistogram
    \/ CalculateHistogramNoFrames
    \/ CalculateHistogramTrap
    \/ SegmentFrame
    \/ SegmentDone
    \/ ProcessSignals
    \/ ProcessSignalsCrash
    \/ RunDecodeMorse

Spec == Init /\ [][Next]_vars

\* the run has left processStateChanges
Segmented ==
    \/ pc \in {"processSignals", "decodeMorse", "done"}
    \/ pc = "crashed" /\ ub # {"division by zero"}

\* the run has ended, one way or the other
Ended == pc \in {"done", "crashed", "NoSamples", "InsufficientSignalVariation"}

RECURSIVE TotalDuration(_)
TotalDuration(signals) ==
    IF signals = << >> THEN 0
    ELSE Head(signals).duration + TotalDuration(Tail(signals))

\* C1: after segmenting a non-empty sample sequence the last Signal is the run
\* in progress at the last sample, and the durations add up to the frame span
\* of the samples (the last index minus the first, or that plus one if the
\* last frame itself is counted).
C1_SegmentationTotal ==
    (Segmented /\ m_frames # << >>) =>
        LET first == m_frames[1].time
            last == m_frames[Len(m_frames)].time
        IN  /\ m_signals # << >>
            /\ m_signals[Len(m_signals)].state =
                   StateOf(m_frames[Len(m_frames)], m_mean_luminance)
            /\ TotalDuration(m_signals) \in {last - first, last - first + 1}

\* C2: a run whose peak detection found fewer than 3 OFF peaks or fewer than
\* 2 ON peaks ends in InsufficientSignalVariation, and never read a peak that
\* does not exist.
C2_InsufficientSignalVariation ==
    (Ended /\ Segmented /\ m_frames # << >>
        /\ (Len(off_time_peaks) < 3 \/ Len(on_time_peaks) < 2))
    =>  /\ pc = "InsufficientSignalVariation"
        /\ "peak read out of range" \notin ub
        /\ "rbegin of empty map" \notin ub

\* C3: a run over no samples ends in NoSamples, with no division by a zero
\* sample count and nothing written to the report.
C3_NoSamples ==
    (m_frames = << >> /\ pc \notin {"read_frames", "calculateHistogram"})
    =>  /\ pc = "NoSamples"
        /\ "division by zero" \notin ub
        /\ json = << >>

\* C4: after segmentation every Signal lasts at least one frame and no two
\* consecutive Signals have the same state.
C4_SignalInvariant ==
    Segmented =>
        /\ \A k \in 1..Len(m_signals) : m_signals[k].duration >= 1
        /\ \A k \in 1..(Len(m_signals) - 1) : m_signals[k].state # m_signals[k + 1].state

\* C5: the run over the SOS video reports morse "... --- ..." and message
\* "SOS".
C5_SOS ==
    (pc = "done" /\ m_frames = SOSFrames) =>
        /\ morse = <<".", ".", ".", " ", "-", "-", "-", " ", ".", ".", ".">>
        /\ message = <<"S", "O", "S">>

====
